---- MODULE Spec2Model ----
(***************************************************************************)
(* A model of the AGENTS.md generator extension (src/src/extension.ts and  *)
(* the modules it imports): the ignore filter, the folder tree builder,    *)
(* the leaf-to-root flattening, the per-folder generation engine and the   *)
(* commands that drive them on the extension host's single event loop.     *)
(*                                                                         *)
(* Paths, folder names and ignore patterns are sequences of one-character  *)
(* strings, so that path.join, path.relative, path.basename, String.split  *)
(* and the wildcard matcher are computed the way the code computes them.   *)
(* The content of an AGENTS.md file is a sequence of tokens.               *)
(***************************************************************************)
EXTENDS Integers, Sequences, FiniteSets, TLC

VARIABLES
    workspace,          \* vscode.workspace.workspaceFolders[0].uri.fsPath, or NoWorkspace
    dirs,               \* the directories that exist on disk (absolute paths)
    ignoreNames,        \* runtimeIgnoredFolderNames
    ignorePatterns,     \* runtimeIgnoredFolderPatterns
    selectedModelId,    \* the module variable selectedModelId
    discoveredFolders,  \* the module variable discoveredFolders
    folderStatusMap,    \* the module variable folderStatusMap
    files,              \* content of <folder>/AGENTS.md per folder, or NoFile
    pc,                 \* per command invocation: where its async body is suspended
    kind,               \* per command invocation: "full" or "single"
    runFolders,         \* per invocation: the array the run loop iterates / the single node
    idx,                \* per invocation: position of the run loop in runFolders
    cancel,             \* per invocation: token.isCancellationRequested
    existingContent,    \* per invocation: generateAgentsMdForFolder's existingContent
    agentsContent,      \* per invocation: generateAgentsMdForFolder's agentsContent
    mergeError,         \* per invocation: mergeWithExistingContent's catch block ran
    sendRequests,       \* per invocation: model.sendRequest calls of the current generate call
    subfolderAgentsDocs, \* per invocation: generateAgentsMdForFolder's subfolderDocs
    builds,             \* the buildStatusSnapshot() calls so far: the statuses each read
    latestSnapshot,     \* PortalViewProvider.latestSnapshot
    argument,           \* the arguments of a function called on its own (no call: <<>>)
    result,             \* what that call returned (no call yet: <<>>)
    notice,             \* the notification the last step showed to the operator, if any
    pendingRefresh,     \* background refreshWorkspaceFolders() calls still scanning
    started,            \* generation commands invoked so far
    requested           \* background rescans requested by the operator so far

vars == <<workspace, dirs, ignoreNames, ignorePatterns, selectedModelId,
          discoveredFolders, folderStatusMap, files, pc, kind, runFolders, idx,
          cancel, existingContent, agentsContent, mergeError, sendRequests,
          subfolderAgentsDocs, notice, pendingRefresh, started, requested, argument, result,
          builds, latestSnapshot>>

-----------------------------------------------------------------------------
(* Bounds of the model *)

\* buildStatusSnapshot() calls of one behaviour of the snapshot specification
MaxBuilds == 3

\* depth of the directory universe the scan specification draws its trees from
MaxDepth == 2
\* refreshWorkspaceFolders() calls that may be scanning at the same time
MaxPendingRefresh == 1
\* generation commands (full run or single folder) invoked in one behaviour
MaxCommands == 2
\* operator intents that start a background rescan (ignore-configuration
\* updates and portal openings) in one behaviour
MaxRescanRequests == 1

-----------------------------------------------------------------------------
(* Paths *)

Sep == "/"
\* no workspace folder is open (workspaceRootPath is then the empty string)
NoWorkspace == <<>>

\* the workspace roots considered: the filesystem root and an ordinary folder
WorkspaceRoots == { <<Sep>>, <<Sep, "w">> }

\* folder names that occur on disk, in the order readdir lists them
EntryNames == << <<"a">>, <<"b">>, <<"n">> >>

RECURSIVE Normalize(_)
\* path.normalize as far as path.join needs it: runs of separators collapse
Normalize(s) ==
    IF Len(s) < 2 THEN s
    ELSE IF s[1] = Sep /\ s[2] = Sep THEN Normalize(Tail(s))
    ELSE <<s[1]>> \o Normalize(Tail(s))

\* path.join(folderPath, name)
Join(folderPath, name) == Normalize(folderPath \o <<Sep>> \o name)

\* path.basename(p)
Basename(p) ==
    LET seps == {i \in 1..Len(p) : p[i] = Sep}
        last == IF seps = {} THEN 0 ELSE CHOOSE i \in seps : \A j \in seps : j <= i
    IN  SubSeq(p, last + 1, Len(p))

\* path.relative(from, to) for a path `to` located under `from`
Relative(from, to) ==
    LET rest == SubSeq(to, Len(from) + 1, Len(to))
    IN  IF rest # <<>> /\ rest[1] = Sep THEN Tail(rest) ELSE rest

\* p.split(path.sep).length
SplitLength(p) == 1 + Cardinality({i \in 1..Len(p) : p[i] = Sep})

-----------------------------------------------------------------------------
(* Ignore filter (ignoreConfig.ts) *)

HasChar(s, c) == \E i \in 1..Len(s) : s[i] = c

\* s.replace(/\\/g, '/')
NormalizeSeparators(s) == [i \in 1..Len(s) |-> IF s[i] = "\\" THEN "/" ELSE s[i]]

RECURSIVE matchesPattern(_, _)
\* new RegExp('^' + escaped pattern with * as .* + '$').test(text): every
\* character but * is literal, and . of .* matches any character but a newline
matchesPattern(text, pattern) ==
    IF pattern = <<>> THEN text = <<>>
    ELSE IF pattern[1] = "*"
         THEN \/ matchesPattern(text, Tail(pattern))
              \/ /\ text # <<>>
                 /\ text[1] # "\n"
                 /\ matchesPattern(Tail(text), pattern)
         ELSE /\ text # <<>>
              /\ text[1] = pattern[1]
              /\ matchesPattern(Tail(text), Tail(pattern))

shouldIgnoreFolder(folderName, relativePath) ==
    \/ folderName \in ignoreNames
    \/ \E pattern \in ignorePatterns :
          \/ matchesPattern(folderName, pattern)
          \/ /\ relativePath # <<>>
             /\ HasChar(pattern, "/") \/ HasChar(pattern, "\\")
             /\ matchesPattern(NormalizeSeparators(relativePath),
                               NormalizeSeparators(pattern))

\* DEFAULT_IGNORED_FOLDER_NAMES and DEFAULT_IGNORED_FOLDER_PATTERNS, cut down
\* to one name and one pattern
DefaultIgnoreConfig == [names |-> {<<"n">>}, patterns |-> {<<"*", "-", "t">>}]

\* the ignore configurations an operator submits in the orchestrator's
\* specification: the defaults, or one that excludes the folder a
IgnoreConfigs ==
    { DefaultIgnoreConfig,
      [names |-> {<<"a">>}, patterns |-> {}] }

-----------------------------------------------------------------------------
(* Folder tree builder and traversal orderer (folderScanner.ts) *)

RECURSIVE buildFolderNode(_, _, _)
RECURSIVE childNodes(_, _, _, _)

\* the loop over readdir's entries in buildFolderNode
childNodes(folderPath, names, root, unreadable) ==
    IF names = <<>> THEN <<>>
    ELSE LET childPath == Join(folderPath, Head(names))
             relativePath == Relative(root, childPath)
         IN  (IF /\ childPath \in dirs
                 /\ ~shouldIgnoreFolder(Head(names), relativePath)
              THEN <<buildFolderNode(childPath, root, unreadable)>>
              ELSE <<>>)
             \o childNodes(folderPath, Tail(names), root, unreadable)

\* root is the module variable workspaceRoot set by buildFolderTree;
\* unreadable is the set of directories whose readdir throws during this scan
buildFolderNode(folderPath, root, unreadable) ==
    [path |-> folderPath,
     name |-> Basename(folderPath),
     children |-> IF folderPath \in unreadable
                  THEN <<>>
                  ELSE childNodes(folderPath, EntryNames, root, unreadable)]

buildFolderTree(rootPath, unreadable) == buildFolderNode(rootPath, rootPath, unreadable)

RECURSIVE collect(_)
RECURSIVE collectAll(_)
\* the closure collect of flattenFoldersByDepth: pre-order
collect(node) == <<node>> \o collectAll(node.children)
collectAll(nodes) ==
    IF nodes = <<>> THEN <<>> ELSE collect(Head(nodes)) \o collectAll(Tail(nodes))

\* the comparator's key: a.path.split(path.sep).length
depthOf(node) == SplitLength(node.path)

RECURSIVE sortByDepth(_)
\* Array.prototype.sort with (a, b) => depthB - depthA: stable, deepest first
sortByDepth(folders) ==
    IF folders = <<>> THEN <<>>
    ELSE LET x == folders[Len(folders)]
             sorted == sortByDepth(SubSeq(folders, 1, Len(folders) - 1))
         IN  SelectSeq(sorted, LAMBDA y : depthOf(y) >= depthOf(x))
             \o <<x>>
             \o SelectSeq(sorted, LAMBDA y : depthOf(y) < depthOf(x))

flattenFoldersByDepth(rootNode) == sortByDepth(collect(rootNode))

RECURSIVE Descendants(_)
RECURSIVE DescendantsAll(_)
\* the paths of the nodes below a node of the tree
Descendants(node) == DescendantsAll(node.children)
DescendantsAll(nodes) ==
    IF nodes = <<>> THEN {}
    ELSE {Head(nodes).path} \cup Descendants(Head(nodes)) \cup DescendantsAll(Tail(nodes))

PathsOf(folders) == {folders[i].path : i \in 1..Len(folders)}

-----------------------------------------------------------------------------
(* Statuses, file contents, models *)

NotStarted == "not-started"
InProgress == "in-progress"
Completed  == "completed"
Failed     == "failed"

\* an AGENTS.md file: absent, or present with a text
NoFile     == [exists |-> FALSE, text |-> <<>>]
File(text) == [exists |-> TRUE, text |-> text]
\* existingContent when no file was read
Undefined  == NoFile
NoModel    == "no-model"
ModelIds  == {"m1"}

\* getDefaultModelId: the preferred model, when the provider lists it
DefaultModelId == "m1"

\* the text a generation invocation of the model can stream back
ModelOutputs == { << <<"generated">> >> }

\* a fallback document that lacks the heading with the folder name
FallbackWithoutHeading(name) == << <<"generation-encountered-an-error">> >>

\* fallbackContent of generateAgentsMdForFolder's catch block
FallbackContent(name) == << <<"#">> \o name, <<"generation-encountered-an-error">> >>

\* a merge fallback that keeps the new text only
MergeKeepsNewOnly(existing, new) == new

\* the catch branch of mergeWithExistingContent
DeterministicMerge(existing, new) == new \o << <<"previous-custom-content">> >> \o existing

\* the text a merge invocation of the model can stream back: the model is a
\* black box, it may drop what the existing file held or keep it (then in the
\* form of the deterministic merge)
MergeOutputs(existing, new) == { new, DeterministicMerge(existing, new) }

EmptyStatusMap == [p \in {} |-> NotStarted]

\* Map.prototype.set
MapSet(map, key, value) ==
    [p \in DOMAIN map \cup {key} |-> IF p = key THEN value ELSE map[p]]

-----------------------------------------------------------------------------
(* Command invocations *)

\* the command invocations that can be suspended at the same time; an
\* invocation takes the first free slot
Tasks == {"t1", "t2"}
FreeSlot(t) == pc[t] = "idle" /\ (t = "t2" => pc["t1"] # "idle")

\* the directories of the workspace of the orchestrator's specification:
\* the root and one subfolder
MainDirs(root) ==
    IF root = NoWorkspace THEN {} ELSE {root, Join(root, <<"a">>)}

\* suspended inside generateAgentsMdForFolder
InEngine(t) == pc[t] \in {"gen", "model", "merge", "write", "catch"}

\* the node the invocation is processing
CurrentFolder(t) == runFolders[t][idx[t]]

\* the directories whose readdir fails during one scan: none, or one of them
UnreadableChoices == {{}} \cup {{d} : d \in dirs}
\* every readdir of the scan succeeds
AllReadable == {{}}

\* a scan that a failing readdir ends: the error reaches the catch block of
\* refreshWorkspaceFolders, which empties the list
ScanFailsOnUnreadable(unreadable) ==
    IF workspace = NoWorkspace \/ unreadable # {} THEN <<>>
    ELSE flattenFoldersByDepth(buildFolderTree(workspace, {}))

\* status map and folder list computed by refreshWorkspaceFolders
RefreshedFolders(unreadable) ==
    IF workspace = NoWorkspace THEN <<>>
    ELSE flattenFoldersByDepth(buildFolderTree(workspace, unreadable))

\* a reconciliation that forgets every previous status
StatusMapAlwaysReset(flattened, resetStatuses) ==
    [p \in PathsOf(flattened) |-> NotStarted]

RefreshedStatusMap(flattened, resetStatuses) ==
    [p \in PathsOf(flattened) |->
        IF resetStatuses THEN NotStarted
        ELSE IF p \in DOMAIN folderStatusMap THEN folderStatusMap[p] ELSE NotStarted]

\* refreshWorkspaceFolders, from the end of the scan on
refreshWorkspaceFolders(resetStatuses, failures) ==
    \E unreadable \in failures :
        LET flattened == RefreshedFolders(unreadable)
        IN  /\ discoveredFolders' = flattened
            /\ folderStatusMap' = RefreshedStatusMap(flattened, resetStatuses)

-----------------------------------------------------------------------------
(* The orchestrator's specification: initial state *)

\* no function is called on its own
NoCall == argument = <<>> /\ result = <<>>

\* a generate call that has sent no request to the model
NoRequests == [generation |-> 0, merge |-> 0]

\* the snapshot a new PortalViewProvider holds: no items. read is the
\* position, among the builds, of the build the snapshot comes from
NoSnapshot == [read |-> 0, statuses |-> EmptyStatusMap]

IdleTasks ==
    /\ pc = [t \in Tasks |-> "idle"]
    /\ kind = [t \in Tasks |-> "none"]
    /\ runFolders = [t \in Tasks |-> <<>>]
    /\ idx = [t \in Tasks |-> 0]
    /\ cancel = [t \in Tasks |-> FALSE]
    /\ existingContent = [t \in Tasks |-> Undefined]
    /\ agentsContent = [t \in Tasks |-> <<>>]
    /\ mergeError = [t \in Tasks |-> FALSE]
    /\ sendRequests = [t \in Tasks |-> NoRequests]
    /\ subfolderAgentsDocs = [t \in Tasks |-> <<>>]
    /\ notice = "none"
    /\ started = 0
    /\ builds = <<>>
    /\ latestSnapshot = NoSnapshot

Init ==
    /\ workspace \in WorkspaceRoots \cup {NoWorkspace}
    /\ dirs = MainDirs(workspace)
    /\ ignoreNames = DefaultIgnoreConfig.names
    /\ ignorePatterns = DefaultIgnoreConfig.patterns
    /\ requested = 0
    /\ selectedModelId \in ModelIds \cup {NoModel}
    /\ discoveredFolders = <<>>
    /\ folderStatusMap = EmptyStatusMap
    /\ files = [p \in dirs |-> NoFile]
    /\ IdleTasks
    /\ NoCall
    \* activate() starts one refreshWorkspaceFolders() without awaiting it
    /\ pendingRefresh = [o \in {"rescan", "portal"} |-> IF o = "rescan" THEN 1 ELSE 0]

\* a function called on its own: its arguments and what it returned
callVars == <<argument, result>>
\* the dashboard's snapshot, published in the snapshot specification
portalVars == <<builds, latestSnapshot>>
\* what no command of the orchestrator changes
envVars  == <<workspace, dirs, callVars, portalVars>>
cfgVars  == <<ignoreNames, ignorePatterns, requested>>
scanVars == <<discoveredFolders, folderStatusMap>>
genVars  == <<existingContent, agentsContent, mergeError, sendRequests,
             subfolderAgentsDocs>>
loopVars == <<kind, runFolders, idx, cancel>>
taskVars == <<pc, kind, runFolders, idx, cancel, existingContent, agentsContent,
             mergeError, sendRequests, subfolderAgentsDocs, started>>

\* a command invocation ends: its locals go out of scope
EndCommand(t) ==
    /\ pc' = [pc EXCEPT ![t] = "idle"]
    /\ kind' = [kind EXCEPT ![t] = "none"]
    /\ runFolders' = [runFolders EXCEPT ![t] = <<>>]
    /\ idx' = [idx EXCEPT ![t] = 0]
    /\ cancel' = [cancel EXCEPT ![t] = FALSE]

-----------------------------------------------------------------------------
(* Configuration commands and rescans *)

\* AgentsMDGenerator.selectModel
SelectModel(modelId) ==
    /\ selectedModelId # modelId
    /\ selectedModelId' = modelId
    /\ notice' = "none"
    /\ UNCHANGED <<envVars, cfgVars, scanVars, files, taskVars, pendingRefresh>>

\* AgentsMDGenerator.updateIgnoreConfig, up to its await of refreshWorkspaceFolders()
UpdateIgnoreConfig(cfg) ==
    /\ pendingRefresh["rescan"] < MaxPendingRefresh
    /\ requested < MaxRescanRequests
    /\ requested' = requested + 1
    /\ ignoreNames' = cfg.names
    /\ ignorePatterns' = cfg.patterns
    /\ pendingRefresh' = [pendingRefresh EXCEPT !["rescan"] = @ + 1]
    /\ notice' = "none"
    /\ UNCHANGED <<envVars, selectedModelId, scanVars, files, taskVars>>

\* AgentsMDGenerator.openPortal, up to its await of refreshWorkspaceFolders()
OpenPortal ==
    /\ pendingRefresh["portal"] < MaxPendingRefresh
    /\ requested < MaxRescanRequests
    /\ requested' = requested + 1
    /\ pendingRefresh' = [pendingRefresh EXCEPT !["portal"] = @ + 1]
    /\ notice' = "none"
    /\ UNCHANGED <<envVars, ignoreNames, ignorePatterns, selectedModelId, scanVars, files,
                   taskVars>>

\* a refreshWorkspaceFolders() started by activate() or by updateIgnoreConfig
\* finishes its scan and reconciles the status map
RescanDone ==
    /\ pendingRefresh["rescan"] > 0
    /\ refreshWorkspaceFolders(FALSE, AllReadable)
    /\ pendingRefresh' = [pendingRefresh EXCEPT !["rescan"] = @ - 1]
    /\ notice' = "none"
    /\ UNCHANGED <<envVars, cfgVars, selectedModelId, files, taskVars>>

\* the background block of openPortal: rescan, then pick the default model
\* when none is selected and the provider lists it
PortalLoaded ==
    /\ pendingRefresh["portal"] > 0
    /\ refreshWorkspaceFolders(FALSE, AllReadable)
    /\ pendingRefresh' = [pendingRefresh EXCEPT !["portal"] = @ - 1]
    /\ \E listed \in BOOLEAN :
          selectedModelId' = IF selectedModelId = NoModel /\ listed
                             THEN DefaultModelId
                             ELSE selectedModelId
    /\ notice' = "none"
    /\ UNCHANGED <<envVars, cfgVars, files, taskVars>>

-----------------------------------------------------------------------------
(* AgentsMDGenerator.generateAgentsMd and AgentsMDGenerator.generateSingleFolder *)

\* a command that does not look whether a workspace folder is open
WorkspaceCheckSkipped == FALSE

\* `!vscode.workspace.workspaceFolders || workspaceFolders.length === 0`
WorkspaceAbsent == workspace = NoWorkspace

\* generateCommand up to `await refreshWorkspaceFolders({ resetStatuses: true })`
GenerateCommand(t) ==
    /\ FreeSlot(t)
    /\ started < MaxCommands
    /\ started' = started + 1
    /\ IF WorkspaceAbsent
       THEN /\ notice' = "no-workspace"
            /\ UNCHANGED <<pc, kind>>
       ELSE /\ pc' = [pc EXCEPT ![t] = "scan"]
            /\ kind' = [kind EXCEPT ![t] = "full"]
            /\ notice' = "none"
    /\ UNCHANGED <<envVars, cfgVars, selectedModelId, scanVars, files, runFolders, idx,
                   cancel, genVars, pendingRefresh>>

\* the rescan with resetStatuses finishes; getAvailableModels() is awaited next
GenerateScanDone(t) ==
    /\ pc[t] = "scan"
    /\ refreshWorkspaceFolders(TRUE, AllReadable)
    /\ pc' = [pc EXCEPT ![t] = "models"]
    /\ notice' = "none"
    /\ UNCHANGED <<envVars, cfgVars, selectedModelId, files, loopVars, genVars,
                   pendingRefresh, started>>

\* the withProgress callback starts: `for (const folderNode of discoveredFolders)`
\* iterates the array that discoveredFolders refers to at this moment
GenerateLoopStart(t) ==
    /\ pc[t] = "models"
    /\ IF Len(discoveredFolders) = 0
       THEN /\ EndCommand(t)
            /\ notice' = "no-eligible-folders"
       ELSE /\ pc' = [pc EXCEPT ![t] = "check"]
            /\ runFolders' = [runFolders EXCEPT ![t] = discoveredFolders]
            /\ idx' = [idx EXCEPT ![t] = 1]
            /\ notice' = "none"
            /\ UNCHANGED <<kind, cancel>>
    /\ UNCHANGED <<envVars, cfgVars, selectedModelId, scanVars, files, genVars,
                   pendingRefresh, started>>

\* a loop that never looks at the cancellation token
CancellationIgnored(t) == FALSE

\* `if (token.isCancellationRequested)` at the head of the loop body
CancellationObserved(t) == cancel[t]

\* one pass through the head of the run loop: the loop ends, or the
\* cancellation check stops the run, or the folder is set to InProgress
GenerateLoopHead(t) ==
    /\ pc[t] = "check"
    /\ IF idx[t] > Len(runFolders[t])
       THEN /\ EndCommand(t)
            /\ notice' = "success"
            /\ UNCHANGED folderStatusMap
       ELSE IF CancellationObserved(t)
       THEN /\ EndCommand(t)
            /\ notice' = "cancelled"
            /\ UNCHANGED folderStatusMap
       ELSE /\ pc' = [pc EXCEPT ![t] = "gen"]
            /\ notice' = "none"
            /\ folderStatusMap' = MapSet(folderStatusMap, CurrentFolder(t).path, InProgress)
            /\ UNCHANGED loopVars
    /\ UNCHANGED <<envVars, cfgVars, selectedModelId, discoveredFolders, files, genVars,
                   pendingRefresh, started>>

\* the operator presses Cancel on the progress notification of a full run
RequestCancel(t) ==
    /\ kind[t] = "full"
    /\ pc[t] = "check" \/ InEngine(t)
    /\ ~cancel[t]
    /\ cancel' = [cancel EXCEPT ![t] = TRUE]
    /\ notice' = "none"
    /\ UNCHANGED <<envVars, cfgVars, selectedModelId, scanVars, files, pc, kind, runFolders,
                   idx, genVars, pendingRefresh, started>>

\* generateSingleFolderCommand up to `await updatePortalStatus()`
GenerateSingleFolder(t, folderPath) ==
    /\ FreeSlot(t)
    /\ started < MaxCommands
    /\ started' = started + 1
    /\ IF folderPath \in PathsOf(discoveredFolders)
       THEN LET i == CHOOSE j \in 1..Len(discoveredFolders) :
                        discoveredFolders[j].path = folderPath
            IN  /\ runFolders' = [runFolders EXCEPT ![t] = <<discoveredFolders[i]>>]
                /\ idx' = [idx EXCEPT ![t] = 1]
                /\ kind' = [kind EXCEPT ![t] = "single"]
                /\ pc' = [pc EXCEPT ![t] = "gen"]
                /\ notice' = "none"
                /\ folderStatusMap' = MapSet(folderStatusMap, folderPath, InProgress)
       ELSE /\ notice' = "folder-not-found"
            /\ UNCHANGED <<runFolders, idx, kind, pc, folderStatusMap>>
    /\ UNCHANGED <<envVars, cfgVars, selectedModelId, discoveredFolders, files, cancel,
                   genVars, pendingRefresh>>

-----------------------------------------------------------------------------
(* generateAgentsMdForFolder, one action per await that matters *)

\* a test that only asks whether a file was read: `existingContent !== undefined`
ContentDefined(content) == content.exists

\* a test that takes a fallback document for no content worth merging
TruthyUnlessFallback(content) ==
    /\ content.exists
    /\ content.text # <<>>
    /\ \A p \in dirs : content.text # FallbackContent(Basename(p))

\* `if (existingContent)`: undefined and the empty string are falsy
Truthy(content) == content.exists /\ content.text # <<>>

\* a caller that records Completed whatever generate returned
AlwaysCompleted(success) == Completed

\* success ? GenerationStatus.Completed : GenerationStatus.Failed
StatusOfResult(success) == IF success THEN Completed ELSE Failed

\* generateAgentsMdForFolder returns `success`; its caller resumes in the same
\* turn of the event loop: the status is set and the loop advances (full run),
\* or the outcome is reported and the command ends (single folder)
AfterGenerate(t, success) ==
    /\ folderStatusMap' = MapSet(folderStatusMap, CurrentFolder(t).path,
                                 StatusOfResult(success))
    /\ existingContent' = [existingContent EXCEPT ![t] = Undefined]
    /\ agentsContent' = [agentsContent EXCEPT ![t] = <<>>]
    /\ mergeError' = [mergeError EXCEPT ![t] = FALSE]
    /\ sendRequests' = [sendRequests EXCEPT ![t] = NoRequests]
    /\ subfolderAgentsDocs' = [subfolderAgentsDocs EXCEPT ![t] = <<>>]
    /\ IF kind[t] = "full"
       THEN /\ idx' = [idx EXCEPT ![t] = @ + 1]
            /\ pc' = [pc EXCEPT ![t] = "check"]
            /\ notice' = "none"
            /\ UNCHANGED <<kind, runFolders, cancel>>
       ELSE /\ EndCommand(t)
            /\ notice' = IF success THEN "single-success" ELSE "single-failed"

RECURSIVE subfolderDocsOf(_, _, _)
\* the loop over folderNode.children: a child whose AGENTS.md exists and can
\* be read adds an entry under its path relative to the folder. The contents
\* of the model stay below the 3000 characters after which one is cut
subfolderDocsOf(children, folderPath, unreadable) ==
    IF children = <<>> THEN <<>>
    ELSE LET child == Head(children)
         IN  (IF files[child.path].exists /\ child.path \notin unreadable
              THEN <<[folderPath |-> Relative(folderPath, child.path),
                      agentsMdContent |-> files[child.path].text]>>
              ELSE <<>>)
             \o subfolderDocsOf(Tail(children), folderPath, unreadable)

\* unreadable: the AGENTS.md files whose readFile rejects during this call
getSubfolderAgentsDocs(folderNode, unreadable) ==
    subfolderDocsOf(folderNode.children, folderNode.path, unreadable)

\* read the existing AGENTS.md, collect the sub-folders' documents, assemble
\* the prompt, resolve the model and send the generation request; a missing
\* or unavailable model throws
EngineStart(t) ==
    /\ pc[t] = "gen"
    /\ \E unreadable \in SUBSET {p \in PathsOf(CurrentFolder(t).children) : files[p].exists} :
          subfolderAgentsDocs' = [subfolderAgentsDocs EXCEPT ![t] =
                                     getSubfolderAgentsDocs(CurrentFolder(t), unreadable)]
    /\ LET file == files[CurrentFolder(t).path]
       IN  \E readOk \in BOOLEAN :
              existingContent' = [existingContent EXCEPT ![t] =
                                     IF file.exists /\ readOk THEN file ELSE Undefined]
    /\ IF selectedModelId = NoModel
       THEN pc' = [pc EXCEPT ![t] = "catch"]
       ELSE \E available \in BOOLEAN :
               pc' = [pc EXCEPT ![t] = IF available THEN "model" ELSE "catch"]
    /\ sendRequests' = [sendRequests EXCEPT ![t].generation =
                            IF pc'[t] = "model" THEN @ + 1 ELSE @]
    /\ notice' = "none"
    /\ UNCHANGED <<envVars, cfgVars, selectedModelId, scanVars, files, loopVars,
                   agentsContent, mergeError, pendingRefresh, started>>

\* a request that is handed the token of the run's progress notification
RunTokenForwarded(t) == cancel[t]

\* the token handed to model.sendRequest is cancelled:
\* `new vscode.CancellationTokenSource().token` belongs to a source of its
\* own, which nobody cancels
RequestCancelled(t) == FALSE

\* model.sendRequest and the stream of fragments end: with an error, or with
\* the text when the request was not cancelled
ModelReturns(t) ==
    /\ pc[t] = "model"
    /\ \/ /\ pc' = [pc EXCEPT ![t] = "catch"]
          /\ UNCHANGED agentsContent
       \/ \E text \in ModelOutputs :
             /\ ~RequestCancelled(t)
             /\ agentsContent' = [agentsContent EXCEPT ![t] = text]
             /\ pc' = [pc EXCEPT ![t] =
                          IF Truthy(existingContent[t]) THEN "merge" ELSE "write"]
    /\ sendRequests' = [sendRequests EXCEPT ![t].merge =
                            IF pc'[t] = "merge" THEN @ + 1 ELSE @]
    /\ notice' = "none"
    /\ UNCHANGED <<envVars, cfgVars, selectedModelId, scanVars, files, loopVars,
                   existingContent, mergeError, subfolderAgentsDocs, pendingRefresh,
                   started>>

\* mergeWithExistingContent returns: the model's merge, or the deterministic
\* concatenation when the merge invocation throws
MergeReturns(t) ==
    /\ pc[t] = "merge"
    /\ \/ /\ ~RequestCancelled(t)
          /\ \E merged \in MergeOutputs(existingContent[t].text, agentsContent[t]) :
                agentsContent' = [agentsContent EXCEPT ![t] = merged]
          /\ mergeError' = [mergeError EXCEPT ![t] = FALSE]
       \/ /\ agentsContent' = [agentsContent EXCEPT ![t] =
                  DeterministicMerge(existingContent[t].text, agentsContent[t])]
          /\ mergeError' = [mergeError EXCEPT ![t] = TRUE]
    /\ pc' = [pc EXCEPT ![t] = "write"]
    /\ notice' = "none"
    /\ UNCHANGED <<envVars, cfgVars, selectedModelId, scanVars, files, loopVars,
                   existingContent, sendRequests, subfolderAgentsDocs, pendingRefresh,
                   started>>

\* `await fs.promises.writeFile(agentsFilePath, agentsContent)` settles:
\* written and `return true`, or rejected and on to the catch block
WriteSettles(t) ==
    /\ pc[t] = "write"
    /\ \/ /\ files' = [files EXCEPT ![CurrentFolder(t).path] = File(agentsContent[t])]
          /\ AfterGenerate(t, TRUE)
       \/ /\ pc' = [pc EXCEPT ![t] = "catch"]
          /\ notice' = "none"
          /\ UNCHANGED <<files, folderStatusMap, loopVars, genVars>>
    /\ UNCHANGED <<envVars, cfgVars, selectedModelId, discoveredFolders, pendingRefresh,
                   started>>

\* the catch block: the fallback document is written and `return false`, or
\* that write is rejected too and the error reaches the command's own catch
CatchSettles(t) ==
    /\ pc[t] = "catch"
    /\ \/ /\ files' = [files EXCEPT ![CurrentFolder(t).path] =
                          File(FallbackContent(CurrentFolder(t).name))]
          /\ AfterGenerate(t, FALSE)
       \/ /\ EndCommand(t)
          /\ existingContent' = [existingContent EXCEPT ![t] = Undefined]
          /\ agentsContent' = [agentsContent EXCEPT ![t] = <<>>]
          /\ mergeError' = [mergeError EXCEPT ![t] = FALSE]
          /\ sendRequests' = [sendRequests EXCEPT ![t] = NoRequests]
          /\ subfolderAgentsDocs' = [subfolderAgentsDocs EXCEPT ![t] = <<>>]
          /\ notice' = "error"
          /\ UNCHANGED <<files, folderStatusMap>>
    /\ UNCHANGED <<envVars, cfgVars, selectedModelId, discoveredFolders, pendingRefresh,
                   started>>

-----------------------------------------------------------------------------
(* The orchestrator's specification *)

Next ==
    \/ \E modelId \in ModelIds : SelectModel(modelId)
    \/ \E cfg \in IgnoreConfigs : UpdateIgnoreConfig(cfg)
    \/ OpenPortal
    \/ RescanDone
    \/ PortalLoaded
    \/ \E t \in Tasks : GenerateCommand(t)
    \/ \E t \in Tasks : GenerateScanDone(t)
    \/ \E t \in Tasks : GenerateLoopStart(t)
    \/ \E t \in Tasks : GenerateLoopHead(t)
    \/ \E t \in Tasks : RequestCancel(t)
    \/ \E t \in Tasks : \E folderPath \in dirs : GenerateSingleFolder(t, folderPath)
    \/ \E t \in Tasks : EngineStart(t)
    \/ \E t \in Tasks : ModelReturns(t)
    \/ \E t \in Tasks : MergeReturns(t)
    \/ \E t \in Tasks : WriteSettles(t)
    \/ \E t \in Tasks : CatchSettles(t)

Spec == Init /\ [][Next]_vars

-----------------------------------------------------------------------------
(* The scan specification: buildFolderTree and flattenFoldersByDepth applied *)
(* to every directory tree of a bounded universe                             *)

RECURSIVE AbsolutePath(_, _)
AbsolutePath(root, names) ==
    IF names = <<>> THEN root
    ELSE Join(AbsolutePath(root, SubSeq(names, 1, Len(names) - 1)), names[Len(names)])

DirectoryTrees(root) ==
    { {AbsolutePath(root, r) : r \in S \cup {<<>>}} :
        S \in {X \in SUBSET UNION {[1..d -> {EntryNames[i] : i \in 1..Len(EntryNames)}] :
                                       d \in 1..MaxDepth} :
                  \A r \in X : Len(r) > 1 => SubSeq(r, 1, Len(r) - 1) \in X} }

InitScan ==
    /\ workspace \in WorkspaceRoots
    /\ dirs \in DirectoryTrees(workspace)
    /\ \E cfg \in IgnoreConfigs \cup {[names |-> {}, patterns |-> {<<"a", "/", "*">>}]} :
          /\ ignoreNames = cfg.names
          /\ ignorePatterns = cfg.patterns
    /\ requested = 0
    /\ selectedModelId = NoModel
    /\ discoveredFolders = <<>>
    /\ folderStatusMap = EmptyStatusMap
    /\ files = [p \in dirs |-> NoFile]
    /\ IdleTasks
    \* the directories whose readdir fails when the scan reaches them
    /\ argument \in UnreadableChoices
    /\ result = <<>>
    /\ pendingRefresh = [o \in {"rescan", "portal"} |-> IF o = "rescan" THEN 1 ELSE 0]

\* the refreshWorkspaceFolders() of activate() scans the workspace; the
\* readdir of one directory may fail
ScanWorkspace ==
    /\ pendingRefresh["rescan"] > 0
    /\ refreshWorkspaceFolders(FALSE, {argument})
    /\ pendingRefresh' = [pendingRefresh EXCEPT !["rescan"] = @ - 1]
    /\ notice' = "none"
    /\ UNCHANGED <<envVars, cfgVars, selectedModelId, files, taskVars>>

SpecScan == InitScan /\ [][ScanWorkspace]_vars

-----------------------------------------------------------------------------
(* The engine specification: single-folder generations, one at a time, over  *)
(* folders that may already hold a hand-edited AGENTS.md                     *)

\* a section an operator added to an AGENTS.md: its heading and its text
CustomHeading == <<"#", "#", "c">>
CustomSection == << CustomHeading, <<"custom-text">> >>

InitEngine ==
    /\ workspace = <<Sep, "w">>
    /\ dirs = MainDirs(workspace)
    /\ ignoreNames = DefaultIgnoreConfig.names
    /\ ignorePatterns = DefaultIgnoreConfig.patterns
    /\ requested = 0
    /\ selectedModelId \in ModelIds \cup {NoModel}
    /\ discoveredFolders = <<>>
    /\ folderStatusMap = EmptyStatusMap
    /\ files \in [dirs -> {NoFile, File(<<>>), File(CustomSection)}]
    /\ IdleTasks
    /\ NoCall
    /\ pendingRefresh = [o \in {"rescan", "portal"} |-> IF o = "rescan" THEN 1 ELSE 0]

NextEngine ==
    \/ \E modelId \in ModelIds : SelectModel(modelId)
    \/ RescanDone
    \/ \E folderPath \in dirs : GenerateSingleFolder("t1", folderPath)
    \/ EngineStart("t1")
    \/ ModelReturns("t1")
    \/ MergeReturns("t1")
    \/ WriteSettles("t1")
    \/ CatchSettles("t1")

SpecEngine == InitEngine /\ [][NextEngine]_vars

-----------------------------------------------------------------------------
(* The status specification: getFolderStatusDetails (statusManager.ts)       *)
(* applied to every folder of a bounded universe of directory listings       *)

\* the latest modification time that occurs, in milliseconds
MaxMtime == 2
Mtimes == 0..MaxMtime

\* a `number | undefined` holding a modification time
UndefinedMtime == [defined |-> FALSE, ms |-> 0]
Mtime(ms) == [defined |-> TRUE, ms |-> ms]

\* directory entries: a regular file (its stat may fail), a directory (its
\* readdir may fail), a symbolic link
FileEntry(name, ms, statOk) ==
    [name |-> name, type |-> "file", mtimeMs |-> ms, statOk |-> statOk,
     readable |-> TRUE, entries |-> <<>>]
DirEntry(name, readable, entries) ==
    [name |-> name, type |-> "dir", mtimeMs |-> 0, statOk |-> TRUE,
     readable |-> readable, entries |-> entries]
LinkEntry(name) ==
    [name |-> name, type |-> "link", mtimeMs |-> 0, statOk |-> TRUE,
     readable |-> TRUE, entries |-> <<>>]

AgentsFileName == "AGENTS.md"
TIMESTAMP_IGNORED_DIRECTORIES ==
    {"node_modules", ".git", "dist", "out", "build", ".vscode", "coverage"}

RECURSIVE getLatestContentMtime(_), scanEntries(_, _, _)
\* the loop `for (const entry of entries)` of getLatestContentMtime, from
\* entry i on, with the value of `latest` so far
scanEntries(entries, i, latest) ==
    IF i > Len(entries) THEN latest
    ELSE LET entry == entries[i]
             later(ms) == IF latest.defined THEN Mtime(IF latest.ms >= ms THEN latest.ms ELSE ms) ELSE Mtime(ms)
         IN  IF entry.type = "link" THEN scanEntries(entries, i + 1, latest)
             ELSE IF entry.type = "dir"
                  THEN IF entry.name \in TIMESTAMP_IGNORED_DIRECTORIES
                       THEN scanEntries(entries, i + 1, latest)
                       ELSE LET childLatest == getLatestContentMtime(entry)
                            IN  scanEntries(entries, i + 1,
                                    IF childLatest.defined THEN later(childLatest.ms)
                                    ELSE latest)
             ELSE IF entry.name = AgentsFileName THEN scanEntries(entries, i + 1, latest)
             ELSE IF entry.statOk THEN scanEntries(entries, i + 1, later(entry.mtimeMs))
             ELSE scanEntries(entries, i + 1, latest)

getLatestContentMtime(folder) ==
    IF ~folder.readable THEN UndefinedMtime
    ELSE scanEntries(folder.entries, 1, UndefinedMtime)

\* `value ? new Date(value).toISOString() : undefined`: the instant, unless
\* the time is undefined or 0
UpdatedAt(mtime) == IF mtime.defined /\ mtime.ms # 0 THEN mtime ELSE UndefinedMtime

\* an isUpToDate that only looks at the presence of the file
UpToDateWheneverPresent(agentsMtimeMs, contentMtimeMs) == agentsMtimeMs.defined

\* the expression assigned to isUpToDate
isUpToDate(agentsMtimeMs, contentMtimeMs) ==
    IF agentsMtimeMs.defined
    THEN (IF contentMtimeMs.defined THEN agentsMtimeMs.ms >= contentMtimeMs.ms ELSE TRUE)
    ELSE FALSE

\* fs.promises.stat(agentsPath) followed by stat.isFile()
agentsStat(folder) ==
    LET found == {i \in 1..Len(folder.entries) : folder.entries[i].name = AgentsFileName}
    IN  IF found = {} THEN UndefinedMtime
        ELSE LET entry == folder.entries[CHOOSE i \in found : TRUE]
             IN  IF entry.statOk /\ entry.type = "file" THEN Mtime(entry.mtimeMs)
                 ELSE UndefinedMtime

getFolderStatusDetails(folder) ==
    LET agentsMtimeMs == agentsStat(folder)
        contentMtimeMs == getLatestContentMtime(folder)
    IN  [hasAgentsFile |-> agentsMtimeMs.defined,
         agentsUpdatedAt |-> UpdatedAt(agentsMtimeMs),
         contentUpdatedAt |-> UpdatedAt(contentMtimeMs),
         isUpToDate |-> isUpToDate(agentsMtimeMs, contentMtimeMs)]

\* the listings considered: each part of a folder is absent or present
Listings ==
    LET AgentsChoices ==
            {<<>>, <<FileEntry(AgentsFileName, 0, FALSE)>>,
             <<DirEntry(AgentsFileName, TRUE, <<>>)>>}
                \cup {<<FileEntry(AgentsFileName, ms, TRUE)>> : ms \in Mtimes}
        FileChoices ==
            {<<>>, <<FileEntry("f", 0, FALSE)>>}
                \cup {<<FileEntry("f", ms, TRUE)>> : ms \in Mtimes}
        SubfolderContents ==
            {agents \o file :
                agents \in {<<>>, <<FileEntry(AgentsFileName, MaxMtime, TRUE)>>},
                file \in {<<>>} \cup {<<FileEntry("g", ms, TRUE)>> : ms \in Mtimes}}
        SubfolderChoices ==
            {<<>>, <<DirEntry("s", FALSE, <<>>)>>}
                \cup {<<DirEntry("s", TRUE, entries)>> : entries \in SubfolderContents}
        IgnoredChoices ==
            {<<>>, <<DirEntry("node_modules", TRUE, <<FileEntry("x", MaxMtime, TRUE)>>)>>}
        LinkChoices == {<<>>, <<LinkEntry("l")>>}
    IN
    {DirEntry("w", readable, agents \o file \o sub \o ignored \o link) :
        readable \in BOOLEAN, agents \in AgentsChoices, file \in FileChoices,
        sub \in SubfolderChoices, ignored \in IgnoredChoices, link \in LinkChoices}

InitStatus ==
    /\ workspace = <<Sep, "w">>
    /\ dirs = MainDirs(workspace)
    /\ ignoreNames = DefaultIgnoreConfig.names
    /\ ignorePatterns = DefaultIgnoreConfig.patterns
    /\ requested = 0
    /\ selectedModelId = NoModel
    /\ discoveredFolders = <<>>
    /\ folderStatusMap = EmptyStatusMap
    /\ files = [p \in dirs |-> NoFile]
    /\ IdleTasks
    /\ pendingRefresh = [o \in {"rescan", "portal"} |-> 0]
    /\ argument \in Listings
    /\ result = <<>>

\* one call of getFolderStatusDetails returns
GetFolderStatusDetails ==
    /\ result = <<>>
    /\ result' = <<getFolderStatusDetails(argument)>>
    /\ UNCHANGED <<workspace, dirs, portalVars, argument, cfgVars, selectedModelId, scanVars, files,
                   taskVars, notice, pendingRefresh>>

SpecStatus == InitStatus /\ [][GetFolderStatusDetails]_vars

-----------------------------------------------------------------------------
(* The ignore specification: shouldIgnoreFolder applied to the folder names, *)
(* relative paths and configurations of a bounded universe                   *)

\* the longest folder name considered
MaxNameLen == 3

FolderNames == UNION {[1..n -> {"a", "t", "-", ".", "\n"}] : n \in 1..MaxNameLen}

\* the patterns an operator configures
Patterns ==
    { <<"*", "-", "t">>, <<"a", "*">>, <<"a", ".", "t">>, <<"*">>,
      <<"a", "/", "*">>, <<"a", "\\", "*", "t">> }

\* the relative paths a folder of that name can have: at the root, or in a
\* folder a (the separator being / or \)
RelativePaths(name) == { name, <<"a", "/">> \o name, <<"a", "\\">> \o name }

InitIgnore ==
    /\ workspace = <<Sep, "w">>
    /\ dirs = MainDirs(workspace)
    /\ \/ /\ ignoreNames = {}
          /\ \E pattern \in Patterns : ignorePatterns = {pattern}
       \/ /\ ignoreNames = {<<"a", "t">>}
          /\ ignorePatterns = {}
    /\ requested = 0
    /\ selectedModelId = NoModel
    /\ discoveredFolders = <<>>
    /\ folderStatusMap = EmptyStatusMap
    /\ files = [p \in dirs |-> NoFile]
    /\ IdleTasks
    /\ pendingRefresh = [o \in {"rescan", "portal"} |-> 0]
    /\ \E name \in FolderNames : \E relativePath \in RelativePaths(name) :
          argument = [folderName |-> name, relativePath |-> relativePath]
    /\ result = <<>>

\* one call of shouldIgnoreFolder returns
ShouldIgnoreFolder ==
    /\ result = <<>>
    /\ result' = <<shouldIgnoreFolder(argument.folderName, argument.relativePath)>>
    /\ UNCHANGED <<workspace, dirs, portalVars, argument, cfgVars, selectedModelId, scanVars, files,
                   taskVars, notice, pendingRefresh>>

SpecIgnore == InitIgnore /\ [][ShouldIgnoreFolder]_vars

-----------------------------------------------------------------------------
(* The prompt specification: buildPrompt (promptConfig.ts) applied to the    *)
(* templates, folder structures and sub-folder summaries of a bounded        *)
(* universe. A text is a sequence of tokens; a placeholder is one token, and *)
(* so is each of the replacement patterns $$ and $& of String.replace        *)

SUBFOLDER_CONTEXT == "{{SUBFOLDER_CONTEXT}}"
SUBFOLDER_DOCS == "{{SUBFOLDER_DOCS}}"
FOLDER_STRUCTURE == "{{FOLDER_STRUCTURE}}"

\* text.indexOf(token), counted from 1; 0 when the token does not occur
IndexOf(text, token) ==
    LET found == {i \in 1..Len(text) : text[i] = token}
    IN  IF found = {} THEN 0 ELSE CHOOSE i \in found : \A j \in found : i <= j

\* the replacement string of String.replace: $$ inserts a $, $& the match
ExpandReplacement(replacement, matched) ==
    [i \in 1..Len(replacement) |->
        IF replacement[i] = "$$" THEN "$"
        ELSE IF replacement[i] = "$&" THEN matched
        ELSE replacement[i]]

\* text.replace(token, replacement) with a string pattern: the first
\* occurrence only
Replace(text, token, replacement) ==
    LET i == IndexOf(text, token)
    IN  IF i = 0 THEN text
        ELSE SubSeq(text, 1, i - 1) \o ExpandReplacement(replacement, token)
                                    \o SubSeq(text, i + 1, Len(text))

RECURSIVE folderList(_)
\* the list of the sub-folders that have an AGENTS.md
folderList(subfolderDocs) ==
    IF subfolderDocs = <<>> THEN <<>>
    ELSE <<"-", Head(subfolderDocs).folderPath, "/">> \o folderList(Tail(subfolderDocs))

RECURSIVE subfolderSections(_)
\* one section per entry of the map, in the map's order
subfolderSections(subfolderDocs) ==
    IF subfolderDocs = <<>> THEN <<>>
    ELSE LET doc == Head(subfolderDocs)
         IN  <<"###", doc.folderPath, "/", "Location:", doc.folderPath, "/AGENTS.md",
               "Summary from this sub-folder:">> \o doc.agentsMdContent
                 \o subfolderSections(Tail(subfolderDocs))

\* subfolderContent as buildPrompt assembles it
subfolderContent(subfolderDocs) ==
    <<"Sub-folders with AGENTS.md files:">> \o folderList(subfolderDocs)
        \o subfolderSections(subfolderDocs)

noSubfoldersMessage ==
    <<"No sub-folders have AGENTS.md files.", "INSTRUCTIONS:",
      "COMPLETELY REMOVE the Sub-folders section",
      "COMPLETELY REMOVE the For More Details section",
      "Continue directly to the next section">>

\* buildPrompt; config is what getPromptConfig() returns, subfolderDocs the
\* entries of the map (empty for an empty or undefined map)
buildPrompt(config, folderStructure, subfolderDocs) ==
    LET withContext ==
            IF Len(subfolderDocs) > 0
            THEN Replace(config.mainTemplate, SUBFOLDER_CONTEXT,
                         Replace(config.subfolderContextTemplate, SUBFOLDER_DOCS,
                                 subfolderContent(subfolderDocs)))
            ELSE Replace(config.mainTemplate, SUBFOLDER_CONTEXT, noSubfoldersMessage)
    IN  Replace(withContext, FOLDER_STRUCTURE, folderStructure)

\* main templates that hold the child-context placeholder
MainTemplates ==
    { <<"Analyze the folder", SUBFOLDER_CONTEXT, "Folder Information:", FOLDER_STRUCTURE>>,
      <<FOLDER_STRUCTURE, SUBFOLDER_CONTEXT>>,
      <<SUBFOLDER_CONTEXT, "see above:", SUBFOLDER_CONTEXT, FOLDER_STRUCTURE>> }

SubfolderContextTemplates ==
    { <<"The following sub-folders have documentation:", SUBFOLDER_DOCS, "INSTRUCTIONS">>,
      <<"Sub-folders are documented">> }

\* own-context texts: a listing, a listing of a file that quotes a
\* placeholder, a listing of a file that holds $&
FolderStructures ==
    { <<"Folder: w", "Contents:">>,
      <<"Folder: w", SUBFOLDER_CONTEXT>>,
      <<"Folder: w", "$&">> }

\* summaries of sub-folders: plain, quoting a placeholder, holding $$
SubfolderDocsChoices ==
    LET Summaries == { <<"summary">>, <<FOLDER_STRUCTURE>>, <<"$$">> }
    IN
    {<<>>} \cup {<<[folderPath |-> "s", agentsMdContent |-> summary]>> : summary \in Summaries}
        \cup {<<[folderPath |-> "s", agentsMdContent |-> <<"summary">>],
                [folderPath |-> "u", agentsMdContent |-> summary]>> : summary \in Summaries}

InitPrompt ==
    /\ workspace = <<Sep, "w">>
    /\ dirs = MainDirs(workspace)
    /\ ignoreNames = DefaultIgnoreConfig.names
    /\ ignorePatterns = DefaultIgnoreConfig.patterns
    /\ requested = 0
    /\ selectedModelId = NoModel
    /\ discoveredFolders = <<>>
    /\ folderStatusMap = EmptyStatusMap
    /\ files = [p \in dirs |-> NoFile]
    /\ IdleTasks
    /\ pendingRefresh = [o \in {"rescan", "portal"} |-> 0]
    /\ \E mainTemplate \in MainTemplates :
       \E subfolderContextTemplate \in SubfolderContextTemplates :
       \E folderStructure \in FolderStructures :
       \E subfolderDocs \in SubfolderDocsChoices :
          argument = [config |-> [mainTemplate |-> mainTemplate,
                                  subfolderContextTemplate |-> subfolderContextTemplate],
                      folderStructure |-> folderStructure,
                      subfolderDocs |-> subfolderDocs]
    /\ result = <<>>

\* one call of buildPrompt returns
BuildPrompt ==
    /\ result = <<>>
    /\ result' = <<buildPrompt(argument.config, argument.folderStructure,
                               argument.subfolderDocs)>>
    /\ UNCHANGED <<workspace, dirs, portalVars, argument, cfgVars, selectedModelId, scanVars, files,
                   taskVars, notice, pendingRefresh>>

SpecPrompt == InitPrompt /\ [][BuildPrompt]_vars

-----------------------------------------------------------------------------
(* The portal specification: the dashboard's "Generate Out-of-date Folders"
   button and the handler of the message it posts *)

\* the commands activate() registers
RegisteredCommands ==
    { "AgentsMDGenerator.openPortal", "AgentsMDGenerator.selectModel",
      "AgentsMDGenerator.updateIgnoreConfig", "AgentsMDGenerator.updatePromptConfig",
      "AgentsMDGenerator.generateAgentsMd", "AgentsMDGenerator.generateSingleFolder" }

\* vscode.commands.executeCommand: the promise of a command that nobody
\* registered rejects and no handler runs
executeCommand(command) ==
    IF command \in RegisteredCommands THEN "resolved" ELSE "command-not-found"

\* the modification times behind one item of the snapshot
FolderTimes ==
    [agentsMtimeMs : {UndefinedMtime, Mtime(1)},
     contentMtimeMs : {UndefinedMtime, Mtime(0), Mtime(MaxMtime)}]

\* one item of the snapshot the dashboard holds: item.isUpToDate
ItemIsUpToDate(p) == isUpToDate(argument[p].agentsMtimeMs, argument[p].contentMtimeMs)

\* generateOutdatedButton.disabled = !hasItems || outdatedCount === 0
OutdatedButtonDisabled ==
    LET outdatedCount == Cardinality({p \in PathsOf(discoveredFolders) : ~ItemIsUpToDate(p)})
    IN  Len(discoveredFolders) = 0 \/ outdatedCount = 0

InitPortal ==
    /\ workspace \in WorkspaceRoots
    /\ dirs = MainDirs(workspace)
    /\ ignoreNames = DefaultIgnoreConfig.names
    /\ ignorePatterns = DefaultIgnoreConfig.patterns
    /\ requested = 0
    /\ selectedModelId = DefaultModelId
    /\ discoveredFolders = <<>>
    /\ folderStatusMap = EmptyStatusMap
    /\ files \in [dirs -> {NoFile} \cup {File(text) : text \in ModelOutputs}]
    /\ IdleTasks
    /\ argument \in [dirs -> FolderTimes]
    /\ \A p \in dirs : argument[p].agentsMtimeMs.defined = files[p].exists
    /\ result = <<>>
    /\ pendingRefresh = [o \in {"rescan", "portal"} |-> IF o = "rescan" THEN 1 ELSE 0]

\* the operator clicks the enabled button: the webview posts 'generateOutdated'
\* and onDidReceiveMessage awaits the command it names
GenerateOutdated ==
    /\ ~OutdatedButtonDisabled
    /\ result = <<>>
    /\ result' = <<executeCommand("AgentsMDGenerator.generateOutdatedFolders")>>
    /\ UNCHANGED <<workspace, dirs, portalVars, argument, cfgVars, selectedModelId, scanVars, files,
                   taskVars, notice, pendingRefresh>>

NextPortal ==
    \/ RescanDone
    \/ GenerateOutdated

SpecPortal == InitPortal /\ [][NextPortal]_vars

-----------------------------------------------------------------------------
(* The snapshot specification: updatePortalStatus() calls of a rescan and of
   a run, each reading the statuses, awaiting the file system and handing its
   snapshot to the dashboard provider *)

\* updatePortalStatus() up to the await of Promise.all in buildStatusSnapshot
StartBuild(folders, statusMap, caller) ==
    /\ Len(builds) < MaxBuilds
    /\ builds' = Append(builds, [statuses |-> [p \in PathsOf(folders) |->
                                                 IF p \in DOMAIN statusMap THEN statusMap[p]
                                                 ELSE NotStarted],
                                 pending |-> TRUE, caller |-> caller])

InitSnapshot ==
    /\ workspace = <<Sep, "w">>
    /\ dirs = MainDirs(workspace)
    /\ ignoreNames = DefaultIgnoreConfig.names
    /\ ignorePatterns = DefaultIgnoreConfig.patterns
    /\ requested = 0
    /\ selectedModelId = DefaultModelId
    /\ discoveredFolders = <<>>
    /\ folderStatusMap = EmptyStatusMap
    /\ files = [p \in dirs |-> NoFile]
    /\ IdleTasks
    /\ NoCall
    /\ pendingRefresh = [o \in {"rescan", "portal"} |-> IF o = "rescan" THEN 1 ELSE 0]

\* refreshWorkspaceFolders(), started by activate() or by updateIgnoreConfig,
\* reconciles the status map and calls updatePortalStatus()
RefreshPublishes ==
    /\ pendingRefresh["rescan"] > 0
    /\ refreshWorkspaceFolders(FALSE, AllReadable)
    /\ StartBuild(discoveredFolders', folderStatusMap', "rescan")
    /\ pendingRefresh' = [pendingRefresh EXCEPT !["rescan"] = @ - 1]
    /\ notice' = "none"
    /\ UNCHANGED <<workspace, dirs, callVars, latestSnapshot, cfgVars, selectedModelId,
                   files, taskVars>>

\* a run sets the status of a folder and awaits updatePortalStatus(): to
\* InProgress before generateAgentsMdForFolder, to Completed or Failed after
\* it; the run awaits each of its builds before it goes on
RunPublishes(folderPath, status) ==
    /\ folderPath \in DOMAIN folderStatusMap
    /\ \A i \in 1..Len(builds) : builds[i].caller = "run" => ~builds[i].pending
    /\ IF folderStatusMap[folderPath] = InProgress
       THEN status \in {Completed, Failed}
       ELSE status = InProgress
    /\ folderStatusMap' = MapSet(folderStatusMap, folderPath, status)
    /\ StartBuild(discoveredFolders, folderStatusMap', "run")
    /\ notice' = "none"
    /\ UNCHANGED <<workspace, dirs, callVars, latestSnapshot, cfgVars, selectedModelId,
                   discoveredFolders, files, taskVars, pendingRefresh>>

\* the file-system reads of one build end: portalViewProvider.update(snapshot)
BuildSettles(i) ==
    /\ builds[i].pending
    /\ builds' = [builds EXCEPT ![i].pending = FALSE]
    /\ latestSnapshot' = [read |-> i, statuses |-> builds[i].statuses]
    /\ notice' = "none"
    /\ UNCHANGED <<workspace, dirs, callVars, cfgVars, selectedModelId, scanVars, files,
                   taskVars, pendingRefresh>>

NextSnapshot ==
    \/ \E cfg \in IgnoreConfigs : UpdateIgnoreConfig(cfg)
    \/ RefreshPublishes
    \/ \E folderPath \in dirs : \E status \in {InProgress, Completed, Failed} :
          RunPublishes(folderPath, status)
    \/ \E i \in 1..Len(builds) : BuildSettles(i)

SpecSnapshot == InitSnapshot /\ [][NextSnapshot]_vars

-----------------------------------------------------------------------------
(* The structure specification: getFolderStructure applied to the listings of
   a bounded universe. The own-context text is a sequence of blocks: a line
   of text, the directory and the file it names, the file content it quotes *)

Block(line, directory, file, content) ==
    [line |-> line, directory |-> directory, file |-> file, content |-> content]

\* a file of a listing: name.endsWith(ext) holds for its ext
SourceFile(name, ext, content, readable) ==
    [name |-> name, ext |-> ext, content |-> content, readable |-> readable]

\* a sub-directory of a listing; hasAgents is fs.existsSync(<dir>/AGENTS.md)
SubDirectory(name, hasAgents, readable, entries) ==
    [name |-> name, hasAgents |-> hasAgents, readable |-> readable, entries |-> entries]

\* a name that ends with .config.js ends with .js too
isCodeFile(e) ==
    e.ext \in {".ts", ".js", ".py", ".java", ".tsx", ".jsx", ".cs", ".go", ".cpp", ".c",
               ".rs", ".rb", ".config.js", ".config.ts"}
\* files.slice(0, n)
Slice(fileEntries, n) == SubSeq(fileEntries, 1, IF Len(fileEntries) < n THEN Len(fileEntries) ELSE n)

\* content.length > limit ? content.substring(0, limit) + '... (truncated)' : content
Truncated(content, limit) ==
    IF Len(content) > limit THEN SubSeq(content, 1, limit) \o <<"... (truncated)">>
    ELSE content

CodeFileLimit == 10
CodeContentLimit == 2500
SubfolderCodeFileLimit == 3
SubfolderContentLimit == 1500
ConfigFileLimit == 3
ConfigContentLimit == 1000
DocFileLimit == 2
DocContentLimit == 800

RECURSIVE directoryLines(_)
\* `- ${dir.name}/ (has AGENTS.md)` or `(no AGENTS.md - will analyze contents)`
directoryLines(directories) ==
    IF directories = <<>> THEN <<>>
    ELSE <<Block(IF Head(directories).hasAgents THEN "- (has AGENTS.md)"
                 ELSE "- (no AGENTS.md - will analyze contents)",
                 Head(directories).name, "", <<>>)>>
         \o directoryLines(Tail(directories))

RECURSIVE fileLines(_)
fileLines(fileEntries) ==
    IF fileEntries = <<>> THEN <<>>
    ELSE <<Block("-", <<>>, Head(fileEntries).name, <<>>)>> \o fileLines(Tail(fileEntries))

RECURSIVE fileBlocks(_, _, _, _, _)
\* one block per file: its content, cut at the limit, or a note when the
\* read fails (no block at all where the catch is empty)
fileBlocks(fileEntries, directory, heading, limit, noteUnreadable) ==
    IF fileEntries = <<>> THEN <<>>
    ELSE LET file == Head(fileEntries)
         IN  (IF file.readable
              THEN <<Block(heading, directory, file.name, Truncated(file.content, limit))>>
              ELSE IF noteUnreadable
              THEN <<Block("(Unable to read file)", directory, file.name, <<>>)>>
              ELSE <<>>)
             \o fileBlocks(Tail(fileEntries), directory, heading, limit, noteUnreadable)

RECURSIVE subfolderBlocks(_)
\* the loop over subfoldersWithoutAgents: up to three code files of each
subfolderBlocks(directories) ==
    IF directories = <<>> THEN <<>>
    ELSE LET dir == Head(directories)
             subCodeFiles == SelectSeq(dir.entries, isCodeFile)
         IN  (IF dir.readable /\ Len(subCodeFiles) > 0
              THEN <<Block("### Sub-folder:", dir.name, "", <<>>)>>
                   \o fileBlocks(Slice(subCodeFiles, SubfolderCodeFileLimit), dir.name,
                                 "#### File:", SubfolderContentLimit, TRUE)
                   \o (IF Len(subCodeFiles) > SubfolderCodeFileLimit
                       THEN <<Block("... and more files in", dir.name, "", <<>>)>>
                       ELSE <<>>)
              ELSE <<>>)
             \o subfolderBlocks(Tail(directories))

\* getFolderStructure; listing is what readdir(folderPath) returns, split
\* into directories and files, or the failure of that readdir
getFolderStructure(folderPath, listing) ==
    IF ~listing.readable THEN <<>>
    ELSE LET directories == listing.directories
             fileEntries == listing.files
             isConfigFile(e) ==
                 \/ e.ext \in {".json", ".yaml", ".yml", ".toml", ".xml", ".config.js",
                               ".config.ts"}
                 \/ e.name = "Dockerfile"
             isDocFile(e) == e.ext = ".md" /\ e.name # AgentsFileName
             hasNoAgents(dir) == ~dir.hasAgents
             codeFiles == SelectSeq(fileEntries, isCodeFile)
             configFiles == SelectSeq(fileEntries, isConfigFile)
             docFiles == SelectSeq(fileEntries, isDocFile)
             subfoldersWithoutAgents == SelectSeq(directories, hasNoAgents)
         IN  <<Block("## Folder Structure:", Basename(folderPath), "", <<>>)>>
             \o (IF Len(directories) > 0
                 THEN <<Block("### Sub-directories:", <<>>, "", <<>>)>>
                      \o directoryLines(directories)
                 ELSE <<>>)
             \o (IF Len(fileEntries) > 0
                 THEN <<Block("### Files in this folder:", <<>>, "", <<>>)>> \o fileLines(fileEntries)
                 ELSE <<>>)
             \o (IF Len(codeFiles) > 0
                 THEN <<Block("## Code Files in This Folder (for analysis):", <<>>, "", <<>>)>>
                      \o fileBlocks(Slice(codeFiles, CodeFileLimit), <<>>, "### File:",
                                    CodeContentLimit, TRUE)
                 ELSE <<>>)
             \o (IF Len(subfoldersWithoutAgents) > 0
                 THEN <<Block("## Code Files in Sub-folders Without AGENTS.md:", <<>>, "", <<>>)>>
                      \o subfolderBlocks(subfoldersWithoutAgents)
                 ELSE <<>>)
             \o (IF Len(configFiles) > 0
                 THEN <<Block("## Configuration Files:", <<>>, "", <<>>)>>
                      \o fileBlocks(Slice(configFiles, ConfigFileLimit), <<>>, "###",
                                    ConfigContentLimit, FALSE)
                 ELSE <<>>)
             \o (IF Len(docFiles) > 0
                 THEN <<Block("## Documentation Files:", <<>>, "", <<>>)>>
                      \o fileBlocks(Slice(docFiles, DocFileLimit), <<>>, "###",
                                    DocContentLimit, FALSE)
                 ELSE <<>>)

\* at most two sub-directories, with different names
DirectoryListings ==
    LET \* a plain name, one the default names exclude, one the default
        \* pattern *-t excludes
        SubDirectoryNames == { <<"a">>, <<"n">>, <<"x", "-", "t">> }
        \* a sub-directory holds nothing, a code file or a note
        SubDirectoryEntries(name) ==
            { <<>>,
              <<SourceFile("index.js", ".js", <<"code in">> \o name, TRUE)>>,
              <<SourceFile("notes.md", ".md", <<"notes in">> \o name, TRUE)>> }
        SubDirectories(name) ==
            { SubDirectory(name, hasAgents, readable, entries) :
                hasAgents \in BOOLEAN, readable \in BOOLEAN,
                entries \in SubDirectoryEntries(name) }
    IN
    {<<>>} \cup UNION {{<<d>> : d \in SubDirectories(n)} : n \in SubDirectoryNames}
           \cup UNION {UNION {{<<d, e>> : d \in SubDirectories(n), e \in SubDirectories(m)} :
                                 m \in SubDirectoryNames \ {n}} : n \in SubDirectoryNames}

FileListings ==
    { <<>>,
      <<SourceFile("main.ts", ".ts", <<"code of the folder">>, TRUE)>>,
      <<SourceFile("README.md", ".md", <<"readme">>, TRUE),
        SourceFile("package.json", ".json", <<"manifest">>, FALSE)>> }

InitStructure ==
    /\ workspace = <<Sep, "w">>
    /\ dirs = MainDirs(workspace)
    /\ ignoreNames = DefaultIgnoreConfig.names
    /\ ignorePatterns = DefaultIgnoreConfig.patterns
    /\ requested = 0
    /\ selectedModelId = NoModel
    /\ discoveredFolders = <<>>
    /\ folderStatusMap = EmptyStatusMap
    /\ files = [p \in dirs |-> NoFile]
    /\ IdleTasks
    /\ pendingRefresh = [o \in {"rescan", "portal"} |-> 0]
    /\ \E readable \in BOOLEAN, directories \in DirectoryListings, listed \in FileListings :
          argument = [folderPath |-> workspace,
                      listing |-> [readable |-> readable, directories |-> directories,
                                   files |-> listed]]
    /\ result = <<>>

\* one call of getFolderStructure returns
GetFolderStructure ==
    /\ result = <<>>
    /\ result' = <<getFolderStructure(argument.folderPath, argument.listing)>>
    /\ UNCHANGED <<workspace, dirs, portalVars, argument, cfgVars, selectedModelId,
                   scanVars, files, taskVars, notice, pendingRefresh>>

SpecStructure == InitStructure /\ [][GetFolderStructure]_vars

-----------------------------------------------------------------------------
(* The freshness specification: one folder is processed by the engine at a
   clock time not before any modification time of its listing, files may be
   modified afterwards, and the dashboard then reads the folder's details *)

\* the latest clock time considered
MaxClock == 3

\* fs.promises.writeFile(agentsFilePath, ...) rejects when the path is a
\* directory
writeFileFails(folder) ==
    \E i \in 1..Len(folder.entries) :
       folder.entries[i].name = AgentsFileName /\ folder.entries[i].type = "dir"

\* a writeFile that leaves the modification time of an existing file alone
writeFileKeepsMtime(folder, now) ==
    LET isAgentsEntry(entry) == entry.name = AgentsFileName
        isOtherEntry(entry) == entry.name # AgentsFileName
        old == SelectSeq(folder.entries, isAgentsEntry)
    IN  [folder EXCEPT !.entries =
            <<FileEntry(AgentsFileName, IF old = <<>> THEN now ELSE old[1].mtimeMs, TRUE)>>
            \o SelectSeq(folder.entries, isOtherEntry)]

\* the folder after fs.promises.writeFile(agentsFilePath, ...) at time now:
\* AGENTS.md is a regular file modified at now
writeFile(folder, now) ==
    LET isOtherEntry(entry) == entry.name # AgentsFileName
    IN  [folder EXCEPT !.entries =
            <<FileEntry(AgentsFileName, now, TRUE)>>
            \o SelectSeq(folder.entries, isOtherEntry)]

InitFreshness ==
    /\ workspace = <<Sep, "w">>
    /\ dirs = MainDirs(workspace)
    /\ ignoreNames = DefaultIgnoreConfig.names
    /\ ignorePatterns = DefaultIgnoreConfig.patterns
    /\ requested = 0
    /\ selectedModelId = NoModel
    /\ discoveredFolders = <<>>
    /\ folderStatusMap = EmptyStatusMap
    /\ files = [p \in dirs |-> NoFile]
    /\ IdleTasks
    /\ pendingRefresh = [o \in {"rescan", "portal"} |-> 0]
    /\ \E folder \in Listings :
          argument = [folder |-> folder, now |-> MaxMtime, written |-> "nothing",
                      status |-> InProgress, modified |-> FALSE]
    /\ result = <<>>

\* the clock advances
Tick ==
    /\ result = <<>>
    /\ argument.now < MaxClock
    /\ argument' = [argument EXCEPT !.now = @ + 1]
    /\ UNCHANGED result
    /\ UNCHANGED <<workspace, dirs, portalVars, cfgVars, selectedModelId, scanVars, files,
                   taskVars, notice, pendingRefresh>>

\* generateAgentsMdForFolder writes the generated text and returns true, and
\* the command records Completed
WritesGenerated ==
    /\ result = <<>>
    /\ argument.written = "nothing"
    /\ ~writeFileFails(argument.folder)
    /\ argument' = [argument EXCEPT !.folder = writeFile(@, argument.now),
                                    !.written = "generated", !.status = Completed]
    /\ UNCHANGED result
    /\ UNCHANGED <<workspace, dirs, portalVars, cfgVars, selectedModelId, scanVars, files,
                   taskVars, notice, pendingRefresh>>

\* generateAgentsMdForFolder catches an error, writes the fallback document
\* and returns false, and the command records Failed
WritesFallback ==
    /\ result = <<>>
    /\ argument.written = "nothing"
    /\ ~writeFileFails(argument.folder)
    /\ argument' = [argument EXCEPT !.folder = writeFile(@, argument.now),
                                    !.written = "fallback", !.status = Failed]
    /\ UNCHANGED result
    /\ UNCHANGED <<workspace, dirs, portalVars, cfgVars, selectedModelId, scanVars, files,
                   taskVars, notice, pendingRefresh>>

\* both writes reject: generateAgentsMdForFolder throws, nothing is written
\* and no status is recorded
WriteRejects ==
    /\ result = <<>>
    /\ argument.written = "nothing"
    /\ writeFileFails(argument.folder)
    /\ argument' = [argument EXCEPT !.written = "rejected"]
    /\ UNCHANGED result
    /\ UNCHANGED <<workspace, dirs, portalVars, cfgVars, selectedModelId, scanVars, files,
                   taskVars, notice, pendingRefresh>>

\* after the engine is done with the folder, its file f is saved
ModifyFile ==
    /\ result = <<>>
    /\ argument.written # "nothing"
    /\ \E i \in 1..Len(argument.folder.entries) : argument.folder.entries[i].name = "f"
    /\ argument' = [argument EXCEPT
            !.folder.entries = [i \in DOMAIN @ |->
                                   IF @[i].name = "f" THEN FileEntry("f", argument.now, TRUE)
                                   ELSE @[i]],
            !.modified = TRUE]
    /\ UNCHANGED result
    /\ UNCHANGED <<workspace, dirs, portalVars, cfgVars, selectedModelId, scanVars, files,
                   taskVars, notice, pendingRefresh>>

\* buildStatusSnapshot reads the folder's details
ReadsDetails ==
    /\ result = <<>>
    /\ result' = <<getFolderStatusDetails(argument.folder)>>
    /\ UNCHANGED argument
    /\ UNCHANGED <<workspace, dirs, portalVars, cfgVars, selectedModelId, scanVars, files,
                   taskVars, notice, pendingRefresh>>

NextFreshness ==
    Tick \/ WritesGenerated \/ WritesFallback \/ WriteRejects \/ ModifyFile \/ ReadsDetails

SpecFreshness == InitFreshness /\ [][NextFreshness]_vars

-----------------------------------------------------------------------------
(* Properties *)

\* big holds small as a contiguous run of tokens
Contains(big, small) ==
    \E k \in 1..(Len(big) - Len(small) + 1) : SubSeq(big, k, k + Len(small) - 1) = small

\* generateAgentsMdForFolder returns false to invocation t in this step
ReturnsFalse(t) == pc[t] = "catch" /\ pc'[t] # "catch" /\ notice' # "error"

\* C1: flattenFoldersByDepth, leaf-to-root ordering: for every pair of nodes
\* F and D of the flattened sequence where D is a descendant of F, the index
\* of D is strictly less than the index of F
C1_LeafToRootOrder ==
    \A i, j \in 1..Len(discoveredFolders) :
        discoveredFolders[j].path \in Descendants(discoveredFolders[i]) => j < i

\* C2: in a full run, while a folder F is being processed (from the moment
\* it is set to InProgress), the engine has already returned in this run for
\* every folder of the run's scanned tree that is a descendant of F
C2_DescendantsProcessedFirst ==
    \A t \in Tasks :
        (kind[t] = "full" /\ InEngine(t)) =>
            \A j \in 1..Len(runFolders[t]) :
                runFolders[t][j].path \in Descendants(CurrentFolder(t)) => j < idx[t]

\* C3: at most one engine invocation is in flight and at most one folder has
\* status InProgress at any time
C3_OneGenerationInFlight ==
    /\ Cardinality({t \in Tasks : InEngine(t)}) <= 1
    /\ Cardinality({p \in DOMAIN folderStatusMap : folderStatusMap[p] = InProgress}) <= 1

\* C4: the successive values of a folder's status entry: an entry starts as
\* NotStarted, becomes InProgress from any value, becomes Completed or Failed
\* only from InProgress, and goes back to NotStarted only by a rescan
C4_StatusTransitions ==
    [][\A p \in DOMAIN folderStatusMap' :
          IF p \notin DOMAIN folderStatusMap
          THEN folderStatusMap'[p] = NotStarted
          ELSE \/ folderStatusMap'[p] = folderStatusMap[p]
               \/ folderStatusMap'[p] \in {NotStarted, InProgress}
               \/ /\ folderStatusMap'[p] \in {Completed, Failed}
                  /\ folderStatusMap[p] = InProgress]_vars

\* C5: when generateAgentsMdForFolder has failed and returns, the folder's
\* AGENTS.md exists, holds the folder's name as heading and the failure
\* notice, and the return value is false (the caller records Failed)
C5_FallbackOnFailure ==
    [][\A t \in Tasks :
          ReturnsFalse(t) =>
              LET folder == CurrentFolder(t)
                  text == files'[folder.path].text
              IN  /\ files'[folder.path].exists
                  /\ \E i \in 1..Len(text) : text[i] = <<"#">> \o folder.name
                  /\ \E i \in 1..Len(text) : text[i] = <<"generation-encountered-an-error">>
                  /\ folderStatusMap'[folder.path] = Failed
                  /\ kind[t] = "single" => notice' = "single-failed"]_vars

\* C5, witness: a folder holds the fallback document and is Failed
C5_Witness ==
    \E i \in 1..Len(discoveredFolders) :
        LET folder == discoveredFolders[i]
        IN  /\ files[folder.path] =
                  File(<< <<"#">> \o folder.name, <<"generation-encountered-an-error">> >>)
            /\ folder.path \in DOMAIN folderStatusMap
            /\ folderStatusMap[folder.path] = Failed

\* C6: a full run that is not cancelled never ends early: when it ends, every
\* folder of its sequence has been processed, is Completed or Failed and has
\* an AGENTS.md file, and the success notice is shown
C6_RunProcessesEveryFolder ==
    [][\A t \in Tasks :
          (kind[t] = "full" /\ (pc[t] = "check" \/ InEngine(t)) /\ pc'[t] = "idle" /\ notice' # "cancelled") =>
              /\ idx[t] > Len(runFolders[t])
              /\ notice' = "success"
              /\ \A j \in 1..Len(runFolders[t]) :
                    LET path == runFolders[t][j].path
                    IN  /\ path \in DOMAIN folderStatusMap'
                        /\ folderStatusMap'[path] \in {Completed, Failed}
                        /\ files'[path].exists]_vars

\* C7: when generation fails for a folder that already had an AGENTS.md, the
\* content the file held is still in the file afterwards, the folder is
\* Failed, and the files of all other folders are unchanged
C7_FailureKeepsPreviousContent ==
    [][\A t \in Tasks :
          ReturnsFalse(t) =>
              LET path == CurrentFolder(t).path
              IN  /\ files[path].exists => Contains(files'[path].text, files[path].text)
                  /\ folderStatusMap'[path] = Failed
                  /\ \A other \in dirs \ {path} : files'[other] = files[other]]_vars

\* C8: when the per-folder cancellation check of a full run observes a
\* cancellation request, the run ends in that step: no status is changed, no
\* file is written, no engine call is started, and the notice shown is the
\* cancellation notice
C8_CancellationStopsRun ==
    [][\A t \in Tasks :
          (/\ kind[t] = "full"
           /\ pc[t] = "check"
           /\ idx[t] <= Len(runFolders[t])
           /\ cancel[t]
           /\ pc'[t] # "check") =>
              /\ pc'[t] = "idle"
              /\ notice' = "cancelled"
              /\ folderStatusMap' = folderStatusMap
              /\ files' = files]_vars

\* C8, witness: a run was cancelled after its first folder, the next folder
\* of the tree is still NotStarted
C8_Witness ==
    /\ notice = "cancelled"
    /\ \E p, q \in DOMAIN folderStatusMap :
          /\ folderStatusMap[p] \in {Completed, Failed}
          /\ folderStatusMap[q] = NotStarted

\* C9: a rescan without reset gives each path of the rescanned tree its prior
\* status, or NotStarted if it had none; a rescan with resetStatuses gives
\* every path NotStarted
C9_Reconciliation ==
    [][/\ (\E o \in DOMAIN pendingRefresh : pendingRefresh'[o] < pendingRefresh[o]) =>
             /\ DOMAIN folderStatusMap' = PathsOf(discoveredFolders')
             /\ \A p \in DOMAIN folderStatusMap' :
                   folderStatusMap'[p] = IF p \in DOMAIN folderStatusMap
                                         THEN folderStatusMap[p]
                                         ELSE NotStarted
       /\ (\E t \in Tasks : pc[t] = "scan" /\ pc'[t] = "models") =>
             /\ DOMAIN folderStatusMap' = PathsOf(discoveredFolders')
             /\ \A p \in DOMAIN folderStatusMap' : folderStatusMap'[p] = NotStarted]_vars

\* C9, witness: the rescan of a second full run has reset a folder that an
\* earlier command had processed, while another rescan kept a status
C9_Witness ==
    /\ \E t \in Tasks : pc[t] = "models"
    /\ \E p \in DOMAIN folderStatusMap :
          files[p].exists /\ folderStatusMap[p] = NotStarted

\* C10: every path of the current folder list has exactly one status entry
\* and the status map holds no entry for any other path
C10_StatusMapMatchesTree ==
    DOMAIN folderStatusMap = PathsOf(discoveredFolders)


\* generateAgentsMdForFolder returns true to invocation t in this step
ReturnsTrue(t) == pc[t] = "write" /\ pc'[t] \notin {"write", "catch"}

\* C11: merge preservation: when a successful generate had read an existing
\* content that holds a custom heading, the text it persists holds that heading
C11_MergePreservesCustomHeading ==
    [][\A t \in Tasks :
          (/\ ReturnsTrue(t)
           /\ existingContent[t].exists
           /\ Contains(existingContent[t].text, <<CustomHeading>>)) =>
              Contains(files'[CurrentFolder(t).path].text, <<CustomHeading>>)]_vars

\* C12: when the merge invocation of the model fails, generate goes on to the
\* write with the new text followed by the labelled section and the whole
\* existing content, and when that write succeeds this text is the file, the
\* return value is true and the status is Completed
C12_MergeErrorKeepsBothVersions ==
    [][\A t \in Tasks :
          /\ (pc[t] = "merge" /\ mergeError'[t]) =>
                /\ pc'[t] = "write"
                /\ agentsContent'[t] =
                      agentsContent[t] \o << <<"previous-custom-content">> >>
                                       \o existingContent[t].text
          /\ (ReturnsTrue(t) /\ mergeError[t]) =>
                /\ \E new \in ModelOutputs :
                      files'[CurrentFolder(t).path] =
                          File(new \o << <<"previous-custom-content">> >>
                                   \o existingContent[t].text)
                /\ folderStatusMap'[CurrentFolder(t).path] = Completed
                /\ kind[t] = "single" => notice' = "single-success"]_vars

\* C12, witness: the merge invocation failed for a file with a custom section
\* and the text about to be written holds that section
C12_Witness ==
    \E t \in Tasks :
        /\ pc[t] = "write"
        /\ mergeError[t]
        /\ Contains(agentsContent[t], CustomSection)


RECURSIVE ContentTimestamps(_)
\* the modification times of the files of a folder's subtree that can be
\* read, leaving out AGENTS.md files, symbolic links and what lies under a
\* directory of the fixed ignored names
ContentTimestamps(folder) ==
    IF ~folder.readable THEN {}
    ELSE LET E == {folder.entries[i] : i \in 1..Len(folder.entries)}
         IN  {e.mtimeMs : e \in {x \in E : /\ x.type = "file"
                                           /\ x.statOk
                                           /\ x.name # "AGENTS.md"}}
             \cup UNION {ContentTimestamps(d) :
                            d \in {x \in E : /\ x.type = "dir"
                                             /\ x.name \notin TIMESTAMP_IGNORED_DIRECTORIES}}

\* the timestamps of the folder's own AGENTS.md, when it is a file one can stat
AgentsTimestamps(folder) ==
    {e.mtimeMs : e \in {folder.entries[i] : i \in
        {j \in 1..Len(folder.entries) : /\ folder.entries[j].name = "AGENTS.md"
                                        /\ folder.entries[j].type = "file"
                                        /\ folder.entries[j].statOk}}}

\* C13: getFolderStatusDetails: isUpToDate is true exactly when the AGENTS.md
\* file exists and no content timestamp of the subtree is later than the
\* file's timestamp (none existing included); without AGENTS.md it is false
C13_UpToDateIffFresh ==
    result # <<>> =>
        /\ result[1].isUpToDate <=>
              /\ AgentsTimestamps(argument) # {}
              /\ \A out \in AgentsTimestamps(argument) :
                    \A src \in ContentTimestamps(argument) : out >= src
        /\ result[1].hasAgentsFile <=> AgentsTimestamps(argument) # {}
        /\ (\A i \in 1..Len(argument.entries) : argument.entries[i].name # "AGENTS.md")
              => ~result[1].isUpToDate

\* C13, witness: a folder found up to date whose latest content lies in a
\* subfolder, and whose AGENTS.md is older than a file under node_modules
C13_Witness ==
    /\ result # <<>>
    /\ result[1].isUpToDate
    /\ \E i \in 1..Len(argument.entries) :
          /\ argument.entries[i].name = "s"
          /\ ContentTimestamps(argument.entries[i]) = {1}
    /\ AgentsTimestamps(argument) = {1}
    /\ \E i \in 1..Len(argument.entries) : argument.entries[i].name = "node_modules"


\* C14: when no workspace folder is open, a generation command does not start
\* a run: it shows the one error notice and ends in the same step, no status,
\* folder list or file changes, no scan is started and no invocation is ever
\* suspended in a run
C14_NoWorkspaceNoRun ==
    [][workspace = NoWorkspace =>
          /\ \A t \in Tasks : pc'[t] = "idle"
          /\ started' # started =>
                /\ notice' = "no-workspace"
                /\ UNCHANGED <<folderStatusMap, discoveredFolders, files, pendingRefresh,
                               selectedModelId>>]_vars

\* C14, witness: the command was invoked without a workspace and reported it
C14_Witness ==
    /\ workspace = NoWorkspace
    /\ started > 0
    /\ notice = "no-workspace"
    /\ folderStatusMap = EmptyStatusMap


ScanDone == pendingRefresh["rescan"] = 0

\* q is p or a directory above p
IsAtOrAbove(q, p) ==
    /\ Len(q) <= Len(p)
    /\ SubSeq(p, 1, Len(q)) = q
    /\ \/ Len(q) = Len(p)
       \/ q[Len(q)] = Sep
       \/ p[Len(q) + 1] = Sep

\* C16: each node's children are exactly its direct subdirectories that are
\* not excluded (none when its readdir failed), nothing at or under an
\* excluded directory is in the sequence, and for the workspace root/a, root/a/b, ignored root/n, all of it
\* readable, the sequence is [root/a/b, root/a, root]: 3 folders
C16_TreeExcludesIgnored ==
    LET DirectSubdirectories(p) ==
            {d \in dirs \ {p} :
                /\ IsAtOrAbove(p, d)
                /\ \A q \in dirs : (IsAtOrAbove(p, q) /\ IsAtOrAbove(q, d)) => q \in {p, d}}
        Excluded(d) == shouldIgnoreFolder(Basename(d), Relative(workspace, d))
        ScenarioWorkspace ==
            /\ dirs = {workspace, Join(workspace, <<"a">>),
                       Join(Join(workspace, <<"a">>), <<"b">>), Join(workspace, <<"n">>)}
            /\ <<"n">> \in ignoreNames
            /\ ignorePatterns = DefaultIgnoreConfig.patterns
    IN
    /\ ScanDone =>
        /\ \E unreadable \in UnreadableChoices :
              \A i \in 1..Len(discoveredFolders) :
                  LET node == discoveredFolders[i]
                  IN  /\ PathsOf(node.children) =
                            IF node.path \in unreadable THEN {}
                            ELSE {d \in DirectSubdirectories(node.path) : ~Excluded(d)}
                      /\ Len(node.children) = Cardinality(PathsOf(node.children))
                      /\ PathsOf(node.children) \subseteq PathsOf(discoveredFolders)
        /\ \A p \in PathsOf(discoveredFolders) :
              /\ p \in dirs
              /\ \A q \in dirs \ {workspace} : IsAtOrAbove(q, p) => ~Excluded(q)
        /\ workspace \in PathsOf(discoveredFolders)
    /\ (ScanDone /\ ScenarioWorkspace) =>
          /\ Len(discoveredFolders) <= 3
          /\ Len(discoveredFolders) = 3 =>
                [i \in 1..3 |-> discoveredFolders[i].path] =
                    << Join(Join(workspace, <<"a">>), <<"b">>),
                       Join(workspace, <<"a">>),
                       workspace >>


RECURSIVE WildcardMatches(_, _)
\* the pattern matches the whole text, each * standing for zero or more
\* characters and every other character for itself
WildcardMatches(text, pattern) ==
    IF pattern = <<>> THEN text = <<>>
    ELSE IF pattern[1] = "*"
         THEN \E k \in 0..Len(text) :
                 WildcardMatches(SubSeq(text, k + 1, Len(text)), Tail(pattern))
         ELSE /\ text # <<>>
              /\ text[1] = pattern[1]
              /\ WildcardMatches(Tail(text), Tail(pattern))

\* C17: shouldIgnoreFolder returns true exactly when the name is a configured
\* name, or a pattern wildcard-matches the whole name, or a pattern holding a
\* separator wildcard-matches the separator-normalized relative path
C17_IgnoreIffNameOrPattern ==
    result # <<>> =>
        (result[1] <=>
            \/ argument.folderName \in ignoreNames
            \/ \E pattern \in ignorePatterns :
                  \/ WildcardMatches(argument.folderName, pattern)
                  \/ /\ HasChar(pattern, "/") \/ HasChar(pattern, "\\")
                     /\ WildcardMatches(NormalizeSeparators(argument.relativePath),
                                        NormalizeSeparators(pattern)))


\* C18: buildPrompt: with a non-empty mapping of sub-folder summaries the
\* prompt holds the rendering of the child-context template and does not
\* hold the child-context placeholder; with an empty mapping it holds the
\* instruction to remove the child sections
C18_PromptSubstitution ==
    LET template == argument.config.subfolderContextTemplate
        summaries == subfolderContent(argument.subfolderDocs)
        RECURSIVE rendering(_)
        \* the child-context template with the summaries put in place of
        \* every placeholder, character for character
        rendering(k) == IF k > Len(template) THEN <<>>
                        ELSE (IF template[k] = "{{SUBFOLDER_DOCS}}" THEN summaries
                              ELSE <<template[k]>>) \o rendering(k + 1)
    IN
    result # <<>> =>
        IF Len(argument.subfolderDocs) > 0
        THEN /\ Contains(result[1], rendering(1))
             /\ \A i \in 1..Len(result[1]) : result[1][i] # "{{SUBFOLDER_CONTEXT}}"
        ELSE Contains(result[1], noSubfoldersMessage)

\* C19: the outdated-only run mode: once the intent is handled, a run starts
\* over exactly the folders whose isUpToDate is false at that moment, in the
\* leaf-to-root order of the discovered sequence, and the status and output
\* file of every up-to-date folder stay as they are
C19_OutdatedRunProcessesOutdatedFolders ==
    [][result' # result =>
          /\ \E t \in Tasks :
                LET IsOutdated(folder) == ~ItemIsUpToDate(folder.path)
                IN  /\ pc'[t] # "idle"
                    /\ runFolders'[t] = SelectSeq(discoveredFolders, IsOutdated)
          /\ \A p \in PathsOf(discoveredFolders) :
                ItemIsUpToDate(p) => /\ folderStatusMap'[p] = folderStatusMap[p]
                                     /\ files'[p] = files[p]]_vars

\* C20: a cancellation requested while a folder's engine call is in flight
\* does not interrupt that folder. The model call can still return its text;
\* no step of the invocation reports a cancellation before the call ends;
\* when the call returns, the folder's status is set to Completed or Failed,
\* the request stays pending and the run is at its next per-folder check
C20_CancellationIsNotPreemptive ==
    [][\A t \in Tasks :
          (kind[t] = "full" /\ cancel[t] /\ InEngine(t)) =>
              /\ pc[t] = "model" => ENABLED (ModelReturns(t) /\ pc'[t] # "catch")
              /\ pc'[t] # pc[t] =>
                    /\ notice' # "cancelled"
                    /\ pc'[t] \in {"model", "merge", "write", "catch", "check", "idle"}
                    /\ pc'[t] = "idle" => notice' = "error"
              /\ (ReturnsTrue(t) \/ ReturnsFalse(t)) =>
                    /\ pc'[t] = "check"
                    /\ cancel'[t]
                    /\ idx'[t] = idx[t] + 1
                    /\ folderStatusMap'[CurrentFolder(t).path] \in {Completed, Failed}]_vars

\* a full run whose cancellation was requested during the engine call of its
\* first folder; the call ended, the folder is Completed and the run is at
\* the check of its second folder
C20_Witness ==
    \E t \in Tasks :
        /\ kind[t] = "full" /\ cancel[t] /\ pc[t] = "check"
        /\ idx[t] = 2 /\ Len(runFolders[t]) >= 2
        /\ folderStatusMap[runFolders[t][1].path] = Completed

\* C21: the fallback document is written, and false returned, only when
\* model resolution or the model invocation failed: a call whose model
\* invocation succeeded never writes the fallback document
C21_FallbackOnlyOnModelFailure ==
    [][\A t \in Tasks : ReturnsFalse(t) => agentsContent[t] = <<>>]_vars

\* C22: one call of generate sends at most one generation request and at
\* most one merge request; a merge request was sent only if non-empty existing
\* content was read and the generation request was answered; and the call
\* ends either by returning true or by failing (returning false or throwing),
\* never both
C22_OneInvocationPerCall ==
    [][\A t \in Tasks :
          /\ sendRequests'[t].generation <= 1
          /\ sendRequests'[t].merge <= 1
          /\ sendRequests'[t].merge = 1 =>
                /\ existingContent'[t].exists
                /\ existingContent'[t].text # <<>>
                /\ sendRequests'[t].generation = 1
                /\ agentsContent'[t] # <<>>
          /\ (InEngine(t) /\ pc'[t] \notin {"gen", "model", "merge", "write", "catch"}) =>
                (ReturnsTrue(t) #
                    (\/ ReturnsFalse(t)
                     \/ pc[t] = "catch" /\ pc'[t] # "catch" /\ notice' = "error"))]_vars

\* a call that sent its generation request and its merge request
C22_Witness ==
    \E t \in Tasks : /\ pc[t] = "write"
                     /\ sendRequests[t] = [generation |-> 1, merge |-> 1]

\* C23: getSubfolderAgentsDocs: when a generate call has collected the
\* child-summary mapping of its folder, every entry of the mapping is keyed
\* by the relative path of a direct child in the tree whose generation
\* completed and whose AGENTS.md exists
C23_SummariesOnlyOfCompletedChildren ==
    [][\A t \in Tasks :
          (pc[t] = "gen" /\ pc'[t] # "gen") =>
              \A i \in 1..Len(subfolderAgentsDocs'[t]) :
                 \E child \in {CurrentFolder(t).children[j] :
                                  j \in 1..Len(CurrentFolder(t).children)} :
                    /\ subfolderAgentsDocs'[t][i].folderPath
                          = Relative(CurrentFolder(t).path, child.path)
                    /\ files[child.path].exists
                    /\ child.path \in DOMAIN folderStatusMap
                    /\ folderStatusMap[child.path] = Completed]_vars

\* C24: buildPrompt: the own-context text is inserted at the position of the
\* main template's own folder-structure placeholder and the child-context
\* block at the main template's child-context placeholder, whatever
\* characters the child summaries and the own-context text contain
C24_InsertedAtTemplatePlaceholders ==
    LET template == argument.config.mainTemplate
        childTemplate == argument.config.subfolderContextTemplate
        i == IndexOf(template, SUBFOLDER_CONTEXT)
        j == IndexOf(template, FOLDER_STRUCTURE)
        d == IndexOf(childTemplate, SUBFOLDER_DOCS)
        \* the child-context block: the child template around the summaries,
        \* inserted as they are, or the instruction to remove the sections
        block == IF Len(argument.subfolderDocs) = 0 THEN noSubfoldersMessage
                 ELSE IF d = 0 THEN childTemplate
                 ELSE SubSeq(childTemplate, 1, d - 1)
                         \o subfolderContent(argument.subfolderDocs)
                         \o SubSeq(childTemplate, d + 1, Len(childTemplate))
        RECURSIVE fill(_)
        \* the main template with the block at its own child-context
        \* placeholder and the own-context text at its own folder-structure
        \* placeholder
        fill(k) == IF k > Len(template) THEN <<>>
                   ELSE (IF k = i THEN block
                         ELSE IF k = j THEN argument.folderStructure
                         ELSE <<template[k]>>) \o fill(k + 1)
    IN  result # <<>> => result[1] = fill(1)

\* the node of the folder at path p in a sequence of nodes
NodeAt(folders, p) == folders[CHOOSE i \in 1..Len(folders) : folders[i].path = p]

\* the folders of the scan in which every directory can be read
ReadableScan == collect(buildFolderTree(workspace, {}))

\* C25: buildFolderTree: when reading one directory fails the scan does not
\* fail; that directory, where the scan reaches it, is a node without
\* children, and every directory outside it that the scan without the failure
\* holds is a node with the children it has in that scan
C25_ReadFailureIsLocal ==
    ScanDone =>
        /\ workspace \in PathsOf(discoveredFolders)
        /\ \A p \in PathsOf(ReadableScan) :
              IF p \in argument
              THEN /\ p \in PathsOf(discoveredFolders)
                   /\ NodeAt(discoveredFolders, p).children = <<>>
              ELSE (\A d \in argument : ~IsAtOrAbove(d, p)) =>
                       /\ p \in PathsOf(discoveredFolders)
                       /\ PathsOf(NodeAt(discoveredFolders, p).children)
                             = PathsOf(NodeAt(ReadableScan, p).children)
                       /\ Len(NodeAt(discoveredFolders, p).children)
                             = Len(NodeAt(ReadableScan, p).children)

\* a scan in which the readdir of a directory with a sub-directory failed,
\* while another directory of the workspace was read and has its child
C25_Witness ==
    /\ ScanDone
    /\ \E d \in argument :
          /\ d \in PathsOf(ReadableScan)
          /\ NodeAt(ReadableScan, d).children # <<>>
          /\ NodeAt(discoveredFolders, d).children = <<>>
          /\ \E p \in PathsOf(discoveredFolders) :
                /\ ~IsAtOrAbove(d, p) /\ ~IsAtOrAbove(p, d)
                /\ NodeAt(discoveredFolders, p).children # <<>>

\* C26: when a full run or a single-folder generation terminates, by its
\* success notice, by cancellation or by the error its catch reports, none of
\* its folders is left with status InProgress (a folder that another
\* invocation is generating at that moment is that invocation's)
C26_NoFolderLeftInProgress ==
    [][\A t \in Tasks :
          (pc[t] # "idle" /\ pc'[t] = "idle") =>
              \A i \in 1..Len(runFolders[t]) :
                 LET p == runFolders[t][i].path
                 IN  (p \in DOMAIN folderStatusMap' /\ folderStatusMap'[p] = InProgress) =>
                        \E u \in Tasks \ {t} :
                           /\ pc'[u] \in {"gen", "model", "merge", "write", "catch"}
                           /\ runFolders'[u][idx'[u]].path = p]_vars

\* C27: when snapshot builds overlap, an older snapshot never replaces a
\* newer one, and once all builds have finished the provider holds the
\* snapshot whose statuses were read last
C27_LatestSnapshotIsNewest ==
    [][/\ latestSnapshot'.read >= latestSnapshot.read
       /\ ((\A i \in 1..Len(builds') : ~builds'[i].pending) /\ Len(builds') > 0) =>
             /\ latestSnapshot'.read = Len(builds')
             /\ latestSnapshot'.statuses = builds'[Len(builds')].statuses]_vars

\* C28: getFolderStructure: the own-context text quotes the content of no
\* file located inside a direct sub-directory that the Ignore Filter excludes
C28_NoContentOfIgnoredSubdirectories ==
    result # <<>> =>
        \A i \in 1..Len(argument.listing.directories) :
           LET dir == argument.listing.directories[i]
           IN  shouldIgnoreFolder(dir.name,
                                  Relative(workspace, Join(argument.folderPath, dir.name))) =>
                  \A j \in 1..Len(dir.entries) : \A k \in 1..Len(result[1]) :
                     result[1][k].content # dir.entries[j].content

\* C29: once the engine has written a folder's AGENTS.md, generated or
\* fallback, and no other file of the subtree has been modified since, the
\* details report isUpToDate; so a folder recorded Failed is up to date
C29_ProcessedFolderIsUpToDate ==
    (/\ result # <<>>
     /\ argument.written \in {"generated", "fallback"}
     /\ ~argument.modified)
        => /\ result[1].isUpToDate
           /\ argument.written = "fallback" => argument.status = Failed

\* a Failed folder holding a readable content file is reported up to date
\* some time after the fallback was written
C29_Witness ==
    /\ result # <<>>
    /\ argument.written = "fallback"
    /\ argument.status = Failed
    /\ ~argument.modified
    /\ argument.now = MaxClock
    /\ getLatestContentMtime(argument.folder).defined
    /\ result[1].isUpToDate

\* C30: a non-empty AGENTS.md that generate reads is its existing content,
\* a fallback document left by an earlier failed attempt included: when the
\* generation invocation then succeeds a merge invocation follows with the
\* fallback text as existing content, and when that one fails the text to
\* persist, and the file once written, hold the fallback text
C30_FallbackIsMergedAsExistingContent ==
    [][\A t \in Tasks :
          LET folder == CurrentFolder(t)
              fallback == FallbackContent(folder.name)
          IN  /\ (pc[t] = "gen" /\ pc'[t] # "gen" /\ existingContent'[t].exists) =>
                    existingContent'[t] = files[folder.path]
              /\ (/\ pc[t] = "model"
                  /\ existingContent[t] = File(fallback)
                  /\ agentsContent'[t] # <<>>) =>
                    /\ pc'[t] = "merge"
                    /\ sendRequests'[t].merge = 1
                    /\ existingContent'[t].text = fallback
              /\ (/\ pc[t] = "merge"
                  /\ existingContent[t] = File(fallback)
                  /\ mergeError'[t]) =>
                    Contains(agentsContent'[t], fallback)
              /\ (/\ ReturnsTrue(t)
                  /\ mergeError[t]
                  /\ existingContent[t] = File(fallback)) =>
                    Contains(files'[folder.path].text, fallback)]_vars

\* C30, witness: the folder's file is the merge of a fallback document that
\* an earlier attempt wrote: the new text, the label, the fallback text
C30_Witness ==
    \E p \in dirs : \E new \in ModelOutputs :
        /\ files[p] = File(DeterministicMerge(FallbackContent(Basename(p)), new))
        /\ folderStatusMap[p] = Completed

====
